---- MODULE Spec2Model ----
(***************************************************************************)
(* Model of the two FaaS clients of cloud_service_utils:                   *)
(*   inpaint_image_via_faas  (inpainting.py)                               *)
(*   segment_image_via_faas  (segmentation.py)                             *)
(* One behaviour is one call: the environment (credential, module          *)
(* namespace, files on disk) is fixed by Init, Invoke binds the arguments, *)
(* and the remaining actions are the statements of the function body in    *)
(* program order.  Bytes are sequences over 0..255; base64 text is a       *)
(* sequence of symbols 0..63 (the alphabet), 64 ('=') and 65 (a character  *)
(* outside the alphabet).  An in-memory image is a pixel value 1..MaxPixel.*)
(* The class_names argument is passed through to the payload untouched and *)
(* is left out.                                                            *)
(***************************************************************************)
EXTENDS Integers, Sequences, FiniteSets, TLC

\* ---------------------------------------------------------------- bounds
MaxPixel == 2
MaxMasks == 2

\* ------------------------------------------------------------ data model
\* Python None for an image argument / a cv2.imdecode result.
None == 0
\* Python None for a path argument.
NoPath == "None"
Pixels == 1..MaxPixel

\* First byte of the PNG signature (0x89) and of a JPEG stream (0xFF).
PNG_MAGIC == 137
JPEG_MAGIC == 255
\* base64 symbols: '=' and a character that is not in the alphabet.
PAD == 64
NON_ALPHABET == 65

\* cv2.imencode('.png', image): the PNG serialisation of an image.
cv2_imencode(img) == <<PNG_MAGIC, img>>

\* cv2.imdecode(buf, IMREAD_COLOR): the image when the bytes are a raster
\* format OpenCV reads, None otherwise (imdecode does not raise).
cv2_imdecode(bytes) ==
  IF Len(bytes) >= 2 /\ bytes[1] \in {PNG_MAGIC, JPEG_MAGIC} /\ bytes[2] \in Pixels
  THEN bytes[2]
  ELSE None

\* base64.b64encode: three bytes to four sextets, '=' padding at the tail.
RECURSIVE b64encode(_)
b64encode(bytes) ==
  IF Len(bytes) = 0 THEN <<>>
  ELSE IF Len(bytes) = 1 THEN
    <<bytes[1] \div 4, (bytes[1] % 4) * 16, PAD, PAD>>
  ELSE IF Len(bytes) = 2 THEN
    <<bytes[1] \div 4, (bytes[1] % 4) * 16 + (bytes[2] \div 16),
      (bytes[2] % 16) * 4, PAD>>
  ELSE
    <<bytes[1] \div 4, (bytes[1] % 4) * 16 + (bytes[2] \div 16),
      (bytes[2] % 16) * 4 + (bytes[3] \div 64), bytes[3] % 64>>
    \o b64encode(SubSeq(bytes, 4, Len(bytes)))

\* base64.b64decode(s) with validate=False (binascii.a2b_base64, non-strict):
\* characters outside the alphabet are skipped, a pad sequence that completes
\* a quad ends the parse, an incomplete quad at the end is binascii.Error.
RECURSIVE a2b_base64(_, _, _, _, _, _)
a2b_base64(s, i, quad_pos, leftchar, pads, out) ==
  IF i > Len(s) THEN [ok |-> quad_pos = 0, data |-> out]
  ELSE IF s[i] = PAD THEN
    IF quad_pos >= 2 /\ quad_pos + pads + 1 >= 4
    THEN [ok |-> TRUE, data |-> out]
    ELSE a2b_base64(s, i + 1, quad_pos, leftchar,
                    IF quad_pos >= 2 THEN pads + 1 ELSE pads, out)
  ELSE IF s[i] > PAD THEN a2b_base64(s, i + 1, quad_pos, leftchar, pads, out)
  ELSE IF quad_pos = 0 THEN a2b_base64(s, i + 1, 1, s[i], 0, out)
  ELSE IF quad_pos = 1 THEN
    a2b_base64(s, i + 1, 2, s[i] % 16, 0,
               Append(out, leftchar * 4 + (s[i] \div 16)))
  ELSE IF quad_pos = 2 THEN
    a2b_base64(s, i + 1, 3, s[i] % 4, 0,
               Append(out, leftchar * 16 + (s[i] \div 4)))
  ELSE a2b_base64(s, i + 1, 0, 0, 0, Append(out, leftchar * 64 + s[i]))

b64decode(s) == a2b_base64(s, 1, 0, 0, 0, <<>>)

\* ----------------------------------------------------------- environment
\* os.getenv('RUNPOD_API_KEY'): unset (None), empty, or a token.
UNSET == "<unset>"
ApiKeys == {UNSET, "", "token"}

\* Files that image_path / mask_path may name.  "gone.png" does not exist.
Paths == {"photo.png", "photo.jpg", "gone.png"}
FileExists(path) == path \in {"photo.png", "photo.jpg"}
FileBytes(path) ==
  IF path = "photo.png" THEN <<PNG_MAGIC, 1>>
  ELSE IF path = "photo.jpg" THEN <<JPEG_MAGIC, 2>>
  ELSE <<>>

\* What the service may answer.  status_code is what requests reports; the
\* body is JSON or not; a JSON body is an object whose fields may be absent.
Statuses == {100, 200, 299, 301, 400, 404, 500, 599}

\* Texts the service may put in output_image / masks.
PngText(p) == b64encode(cv2_imencode(p))
JpegText == b64encode(<<JPEG_MAGIC, 1>>)
JunkText == b64encode(<<0, 7>>)
OneCharText == <<5>>
Unpadded == SubSeq(PngText(1), 1, 3)
WithNewline == <<NON_ALPHABET>> \o PngText(MaxPixel)
OutputTexts ==
  {PngText(p) : p \in Pixels}
    \cup {JpegText, JunkText, OneCharText, Unpadded, WithNewline}
MaskTexts == {PngText(1), JunkText, OneCharText}
MaskLists ==
  UNION {[1..n -> MaskTexts] : n \in 0..MaxMasks}
BoxLists == {<<>>, <<11>>, <<11, 12>>, <<12, 11>>}

EmptyJson ==
  [has_output_image |-> FALSE, output_image |-> <<>>,
   has_masks |-> FALSE, masks |-> <<>>,
   has_bounding_boxes |-> FALSE, bounding_boxes |-> <<>>]

InpaintBodies ==
  {EmptyJson}
    \cup {[EmptyJson EXCEPT !.has_output_image = TRUE, !.output_image = t] :
            t \in OutputTexts \cup {<<>>}}

SegmentBodies ==
  {EmptyJson}
    \cup {[EmptyJson EXCEPT !.has_masks = TRUE, !.masks = m,
                            !.has_bounding_boxes = TRUE, !.bounding_boxes = b] :
            m \in MaskLists, b \in BoxLists}
    \cup {[EmptyJson EXCEPT !.has_bounding_boxes = TRUE, !.bounding_boxes = b] :
            b \in BoxLists}

NoResponse == [status_code |-> 0, is_json |-> FALSE, json |-> EmptyJson]
Responses(bodies) ==
  {[status_code |-> s, is_json |-> TRUE, json |-> j] : s \in Statuses, j \in bodies}
    \cup {[status_code |-> s, is_json |-> FALSE, json |-> EmptyJson] : s \in Statuses}

\* dict.get(key, default) on the parsed response.
get_output_image(j) == IF j.has_output_image THEN j.output_image ELSE <<>>
get_masks(j) == IF j.has_masks THEN j.masks ELSE <<>>
get_bounding_boxes(j) == IF j.has_bounding_boxes THEN j.bounding_boxes ELSE <<>>

\* Destination files.  result.png holds bytes; result.json holds the chunks
\* json.dump has written of a document (complete when all are written).
NumChunks(doc) == 2 + Len(doc.masks) + Len(doc.bounding_boxes)
AbsentPng == [exists |-> FALSE, data |-> <<>>]
OldPng == [exists |-> TRUE, data |-> <<PNG_MAGIC, MaxPixel + 1>>]
AbsentJson == [exists |-> FALSE, doc |-> EmptyJson, chunks |-> 0]
OldDoc == [EmptyJson EXCEPT !.has_bounding_boxes = TRUE, !.bounding_boxes = <<11>>]
OldJson == [exists |-> TRUE, doc |-> OldDoc, chunks |-> NumChunks(OldDoc)]

\* Exceptions and return values.
NoExc == [type |-> "", message |-> "", status_code |-> 0]
Exc(type, message) == [type |-> type, message |-> message, status_code |-> 0]
NoResult == [kind |-> "no", image |-> None, masks |-> <<>>, bounding_boxes |-> <<>>]

\* ------------------------------------------------------------------ state
\* api_key      os.getenv('RUNPOD_API_KEY') at call time
\* json_bound   whether the name json resolves where the function runs.  Both
\*              files call json.dumps / json.dump and neither imports json:
\*              imported as a module the name is unbound (FALSE); it is bound
\*              only when the file is executed in a namespace that already
\*              holds json, e.g. a notebook cell or %run -i (TRUE).
\* result_png, result_json   the files at output_path; before: as they were
\*              when the call started
\* reads, posts  input files opened for reading; calls of requests.post
\* debug        only adds prints; its json.dumps (line 67 / 57) fails on the
\*              unbound name exactly as the one in the requests.post call
VARIABLES
  api_key, json_bound, result_png, result_json, before,
  fn, image, image_path, mask, mask_path, debug,
  pc, image_base64, mask_base64, payload, reads, posts,
  response, response_json, output_image_data, result, raised

env == <<api_key, json_bound>>
files == <<result_png, result_json>>
args == <<fn, image, image_path, mask, mask_path, debug>>
locals == <<image_base64, mask_base64, payload, response, response_json, output_image_data>>
io == <<reads, posts>>
vars == <<env, files, before, args, pc, locals, io, result, raised>>

Init ==
  /\ api_key \in ApiKeys
  /\ json_bound \in BOOLEAN
  /\ result_png \in {AbsentPng, OldPng}
  /\ result_json \in {AbsentJson, OldJson}
  /\ before = [png |-> result_png, json |-> result_json]
  /\ fn = "none"
  /\ image = None /\ image_path = NoPath
  /\ mask = None /\ mask_path = NoPath
  /\ debug = FALSE
  /\ pc = "idle"
  /\ image_base64 = <<>> /\ mask_base64 = <<>>
  /\ payload = [image |-> <<>>, mask |-> <<>>]
  /\ reads = {} /\ posts = 0
  /\ response = NoResponse
  /\ response_json = EmptyJson
  /\ output_image_data = <<>>
  /\ result = NoResult
  /\ raised = NoExc

\* raise: the exception leaves the function, nothing else runs.
Raise(e) == pc' = "done" /\ raised' = e /\ UNCHANGED result
\* return value
Return(r) == pc' = "done" /\ result' = r /\ UNCHANGED raised
Goto(label) == pc' = label /\ UNCHANGED <<result, raised>>

\* Variant: the check `if api_key is None` (an empty value passes).
not_api_key_is_none(key) == key = UNSET

\* ------------------------------------------------- steps shared by both
\* `if not api_key`: None and the empty string are falsy.
not_api_key(key) == key = UNSET \/ key = ""

\* Variant: only server errors raise.
raise_for_status_5xx(status_code) == 500 <= status_code /\ status_code < 600

\* requests.Response.raise_for_status raises HTTPError for 400 <= status < 600
\* and returns for every other status.
raise_for_status(status_code) == 400 <= status_code /\ status_code < 600

\* Variant: the check `if output_image_base64 is None` (never true, the
\* default of .get being "").
not_output_image_is_none(text) == FALSE

\* `if not output_image_base64`: the empty string is falsy.
not_output_image(text) == text = <<>>

\* Variant: dispatch on image alone, as segmentation does.
inpaint_returns_image_by_image(img, msk) == img /= None

\* `if image is not None or mask is not None`
inpaint_returns_image(img, msk) == img /= None \/ msk /= None

\* `if image is not None`
segment_returns_dict(img) == img /= None

\* Variant: a role without a source is sent as an empty value.
load_source_unchecked(buf, path, role) ==
  IF buf /= None THEN
    [exc |-> NoExc, base64 |-> b64encode(cv2_imencode(buf)), opened |-> {}]
  ELSE IF path /= NoPath THEN
    IF FileExists(path)
    THEN [exc |-> NoExc, base64 |-> b64encode(FileBytes(path)), opened |-> {path}]
    ELSE [exc |-> Exc("FileNotFoundError", path), base64 |-> <<>>, opened |-> {path}]
  ELSE [exc |-> NoExc, base64 |-> <<>>, opened |-> {}]

\* Variant: a file is read with cv2 and re-encoded as PNG like a buffer.
load_source_normalized(buf, path, role) ==
  IF buf /= None THEN
    [exc |-> NoExc, base64 |-> b64encode(cv2_imencode(buf)), opened |-> {}]
  ELSE IF path /= NoPath THEN
    IF FileExists(path)
    THEN [exc |-> NoExc,
          base64 |-> b64encode(cv2_imencode(cv2_imdecode(FileBytes(path)))),
          opened |-> {path}]
    ELSE [exc |-> Exc("FileNotFoundError", path), base64 |-> <<>>, opened |-> {path}]
  ELSE
    [exc |-> Exc("ValueError", "Either " \o role \o " or " \o role
                                 \o "_path must be provided."),
     base64 |-> <<>>, opened |-> {}]

\* Lines 38-45 (image) and 48-55 (mask), the same in segmentation.py: an
\* in-memory buffer is PNG-encoded; otherwise the file at the path is opened
\* and its bytes are used as they are; with neither, ValueError.
load_source(buf, path, role) ==
  IF buf /= None THEN
    [exc |-> NoExc, base64 |-> b64encode(cv2_imencode(buf)), opened |-> {}]
  ELSE IF path /= NoPath THEN
    IF FileExists(path)
    THEN [exc |-> NoExc, base64 |-> b64encode(FileBytes(path)), opened |-> {path}]
    ELSE [exc |-> Exc("FileNotFoundError", path), base64 |-> <<>>, opened |-> {path}]
  ELSE
    [exc |-> Exc("ValueError", "Either " \o role \o " or " \o role
                                 \o "_path must be provided."),
     base64 |-> <<>>, opened |-> {}]

\* Variant: the masks come back in reverse order.
decode_masks_reversed(masks) ==
  [i \in 1..Len(masks) |-> cv2_imdecode(b64decode(masks[Len(masks) + 1 - i]).data)]

\* [cv2.imdecode(np.frombuffer(base64.b64decode(mask))) for mask in masks]
decode_masks(masks) ==
  [i \in 1..Len(masks) |-> cv2_imdecode(b64decode(masks[i]).data)]

\* --------------------------------------------------- inpaint_image_via_faas
inpaint_invoke ==
  /\ pc = "idle"
  /\ fn' = "inpaint"
  /\ image' \in Pixels \cup {None}
  /\ image_path' \in Paths \cup {NoPath}
  /\ mask' \in Pixels \cup {None}
  /\ mask_path' \in Paths \cup {NoPath}
  /\ debug' \in BOOLEAN
  /\ Goto("credential")
  /\ UNCHANGED <<env, files, before, locals, io>>

inpaint_credential ==
  /\ fn = "inpaint" /\ pc = "credential"
  /\ IF not_api_key(api_key)
     THEN Raise(Exc("ValueError", "RUNPOD_API_KEY environment variable is not set."))
     ELSE Goto("image")
  /\ UNCHANGED <<env, files, before, args, locals, io>>

inpaint_image ==
  /\ fn = "inpaint" /\ pc = "image"
  /\ LET src == load_source(image, image_path, "image") IN
       /\ reads' = reads \cup src.opened
       /\ IF src.exc = NoExc
          THEN image_base64' = src.base64 /\ Goto("mask")
          ELSE Raise(src.exc) /\ UNCHANGED image_base64
  /\ UNCHANGED <<env, files, before, args, mask_base64, payload, response,
                 response_json, output_image_data, posts>>

inpaint_mask ==
  /\ fn = "inpaint" /\ pc = "mask"
  /\ LET src == load_source(mask, mask_path, "mask") IN
       /\ reads' = reads \cup src.opened
       /\ IF src.exc = NoExc
          THEN mask_base64' = src.base64 /\ Goto("post")
          ELSE Raise(src.exc) /\ UNCHANGED mask_base64
  /\ UNCHANGED <<env, files, before, args, image_base64, payload, response,
                 response_json, output_image_data, posts>>

\* Lines 57-76.  json is used (json.dumps) but the module never imports it:
\* the name resolves only when the namespace the function runs in binds it.
\* requests.post is called once; it returns a response or raises.
inpaint_post ==
  /\ fn = "inpaint" /\ pc = "post"
  /\ payload' = [image |-> image_base64, mask |-> mask_base64]
  /\ IF ~json_bound THEN
       /\ Raise(Exc("NameError", "name 'json' is not defined"))
       /\ UNCHANGED <<posts, response>>
     ELSE
       /\ posts' = posts + 1
       /\ \/ /\ response' \in Responses(InpaintBodies)
             /\ Goto("status")
          \/ /\ Raise(Exc("ConnectionError", ""))
             /\ UNCHANGED response
  /\ UNCHANGED <<env, files, before, args, image_base64, mask_base64,
                 response_json, output_image_data, reads>>

inpaint_raise_for_status ==
  /\ fn = "inpaint" /\ pc = "status"
  /\ IF raise_for_status(response.status_code)
     THEN /\ Raise([type |-> "HTTPError", message |-> "",
                    status_code |-> response.status_code])
     ELSE Goto("parse")
  /\ UNCHANGED <<env, files, before, args, locals, io>>

\* Lines 88-94: response.json(), .get("output_image", ""), the empty check.
inpaint_parse ==
  /\ fn = "inpaint" /\ pc = "parse"
  /\ IF ~response.is_json THEN
       /\ Raise(Exc("JSONDecodeError", ""))
       /\ UNCHANGED response_json
     ELSE
       /\ response_json' = response.json
       /\ IF not_output_image(get_output_image(response.json))
          THEN Raise(Exc("ValueError", "No output image in the response."))
          ELSE Goto("decode")
  /\ UNCHANGED <<env, files, before, args, image_base64, mask_base64, payload,
                 response, output_image_data, io>>

\* Variant: output_path is opened for writing before the output is decoded.
inpaint_decode_after_open ==
  /\ fn = "inpaint" /\ pc = "decode"
  /\ result_png' = IF inpaint_returns_image(image, mask) THEN result_png
                   ELSE [exists |-> TRUE, data |-> <<>>]
  /\ LET d == b64decode(get_output_image(response_json)) IN
       IF d.ok
       THEN output_image_data' = d.data /\ Goto("dispatch")
       ELSE /\ Raise(Exc("binascii.Error", ""))
            /\ UNCHANGED output_image_data
  /\ UNCHANGED <<env, result_json, before, args, image_base64, mask_base64, payload,
                 response, response_json, io>>

\* Line 97: base64.b64decode(output_image_base64)
inpaint_decode ==
  /\ fn = "inpaint" /\ pc = "decode"
  /\ LET d == b64decode(get_output_image(response_json)) IN
       IF d.ok
       THEN output_image_data' = d.data /\ Goto("dispatch")
       ELSE /\ Raise(Exc("binascii.Error", ""))
            /\ UNCHANGED output_image_data
  /\ UNCHANGED <<env, files, before, args, image_base64, mask_base64, payload,
                 response, response_json, io>>

\* Lines 105-112: return the decoded image, or open output_path for writing
\* ("wb" creates the file or truncates it; open itself may fail).
inpaint_dispatch ==
  /\ fn = "inpaint" /\ pc = "dispatch"
  /\ IF inpaint_returns_image(image, mask) THEN
       /\ Return([NoResult EXCEPT !.kind = "image",
                                  !.image = cv2_imdecode(output_image_data)])
       /\ UNCHANGED files
     ELSE
       \/ /\ result_png' = [exists |-> TRUE, data |-> <<>>]
          /\ Goto("write")
          /\ UNCHANGED result_json
       \/ /\ Raise(Exc("OSError", "open"))
          /\ UNCHANGED files
  /\ UNCHANGED <<env, before, args, locals, io>>

\* Lines 113-115: out_file.write(output_image_data); the write completes, or it
\* fails (OSError) after some proper prefix of the data reached the file.
inpaint_write ==
  /\ fn = "inpaint" /\ pc = "write"
  /\ \/ /\ result_png' = [exists |-> TRUE, data |-> output_image_data]
        /\ Return([NoResult EXCEPT !.kind = "None"])
     \/ /\ \E k \in 0..(Len(output_image_data) - 1) :
             result_png' = [exists |-> TRUE, data |-> SubSeq(output_image_data, 1, k)]
        /\ Raise(Exc("OSError", "write"))
  /\ UNCHANGED <<env, result_json, before, args, locals, io>>

\* --------------------------------------------------- segment_image_via_faas
segment_invoke ==
  /\ pc = "idle"
  /\ fn' = "segment"
  /\ image' \in Pixels \cup {None}
  /\ image_path' \in Paths \cup {NoPath}
  /\ debug' \in BOOLEAN
  /\ Goto("credential")
  /\ UNCHANGED <<env, files, before, mask, mask_path, locals, io>>

segment_credential ==
  /\ fn = "segment" /\ pc = "credential"
  /\ IF not_api_key(api_key)
     THEN Raise(Exc("ValueError", "RUNPOD_API_KEY environment variable is not set."))
     ELSE Goto("image")
  /\ UNCHANGED <<env, files, before, args, locals, io>>

segment_image ==
  /\ fn = "segment" /\ pc = "image"
  /\ LET src == load_source(image, image_path, "image") IN
       /\ reads' = reads \cup src.opened
       /\ IF src.exc = NoExc
          THEN image_base64' = src.base64 /\ Goto("post")
          ELSE Raise(src.exc) /\ UNCHANGED image_base64
  /\ UNCHANGED <<env, files, before, args, mask_base64, payload, response,
                 response_json, output_image_data, posts>>

\* Lines 47-63.  As in inpainting.py, json is used but never imported.
segment_post ==
  /\ fn = "segment" /\ pc = "post"
  /\ payload' = [image |-> image_base64, mask |-> <<>>]
  /\ IF ~json_bound THEN
       /\ Raise(Exc("NameError", "name 'json' is not defined"))
       /\ UNCHANGED <<posts, response>>
     ELSE
       /\ posts' = posts + 1
       /\ \/ /\ response' \in Responses(SegmentBodies)
             /\ Goto("status")
          \/ /\ Raise(Exc("ConnectionError", ""))
             /\ UNCHANGED response
  /\ UNCHANGED <<env, files, before, args, image_base64, mask_base64,
                 response_json, output_image_data, reads>>

segment_raise_for_status ==
  /\ fn = "segment" /\ pc = "status"
  /\ IF raise_for_status(response.status_code)
     THEN Raise([type |-> "HTTPError", message |-> "",
                 status_code |-> response.status_code])
     ELSE Goto("parse")
  /\ UNCHANGED <<env, files, before, args, locals, io>>

\* Line 73: response.json()
segment_parse ==
  /\ fn = "segment" /\ pc = "parse"
  /\ IF ~response.is_json
     THEN Raise(Exc("JSONDecodeError", "")) /\ UNCHANGED response_json
     ELSE response_json' = response.json /\ Goto("dispatch")
  /\ UNCHANGED <<env, files, before, args, image_base64, mask_base64, payload,
                 response, output_image_data, io>>

\* Lines 76-83: decode every mask and return the dict (b64decode raises on
\* the first malformed mask), or open output_path for writing ("w").
segment_dispatch ==
  /\ fn = "segment" /\ pc = "dispatch"
  /\ IF segment_returns_dict(image) THEN
       /\ IF \A i \in 1..Len(get_masks(response_json)) :
               b64decode(get_masks(response_json)[i]).ok
          THEN Return([NoResult EXCEPT
                         !.kind = "dict",
                         !.masks = decode_masks(get_masks(response_json)),
                         !.bounding_boxes = get_bounding_boxes(response_json)])
          ELSE Raise(Exc("binascii.Error", ""))
       /\ UNCHANGED files
     ELSE
       \/ /\ result_json' = [exists |-> TRUE, doc |-> response_json, chunks |-> 0]
          /\ Goto("write")
          /\ UNCHANGED result_png
       \/ /\ Raise(Exc("OSError", "open"))
          /\ UNCHANGED files
  /\ UNCHANGED <<env, before, args, locals, io>>

\* Lines 84-86: json.dump(response_json, out_file) writes the document chunk
\* by chunk; it completes, or fails (OSError) with only some chunks written.
segment_write ==
  /\ fn = "segment" /\ pc = "write"
  /\ \/ /\ result_json' = [result_json EXCEPT !.chunks = NumChunks(response_json)]
        /\ Return([NoResult EXCEPT !.kind = "None"])
     \/ /\ \E k \in 0..(NumChunks(response_json) - 1) :
             result_json' = [result_json EXCEPT !.chunks = k]
        /\ Raise(Exc("OSError", "write"))
  /\ UNCHANGED <<env, result_png, before, args, locals, io>>

\* ---------------------------------------------------------- specification
Next ==
  \/ inpaint_invoke
  \/ inpaint_credential
  \/ inpaint_image
  \/ inpaint_mask
  \/ inpaint_post
  \/ inpaint_raise_for_status
  \/ inpaint_parse
  \/ inpaint_decode
  \/ inpaint_dispatch
  \/ inpaint_write
  \/ segment_invoke
  \/ segment_credential
  \/ segment_image
  \/ segment_post
  \/ segment_raise_for_status
  \/ segment_parse
  \/ segment_dispatch
  \/ segment_write

Spec == Init /\ [][Next]_vars

Done == pc = "done"
Returned == Done /\ raised = NoExc
Raised == Done /\ raised /= NoExc

\* ------------------------------------------------------------ vocabulary
Called == fn /= "none"
CredentialSet == api_key /= UNSET /\ api_key /= ""
ImageMissing == Called /\ image = None /\ image_path = NoPath
MaskMissing == fn = "inpaint" /\ mask = None /\ mask_path = NoPath
ImageLoadable == image /= None \/ (image_path /= NoPath /\ FileExists(image_path))
MaskLoadable == mask /= None \/ (mask_path /= NoPath /\ FileExists(mask_path))
SourcesLoadable == Called /\ ImageLoadable /\ (fn = "inpaint" => MaskLoadable)
MissingImageError == Exc("ValueError", "Either image or image_path must be provided.")
MissingMaskError == Exc("ValueError", "Either mask or mask_path must be provided.")
MissingCredentialError ==
  Exc("ValueError", "RUNPOD_API_KEY environment variable is not set.")
EmptyResultError == Exc("ValueError", "No output image in the response.")
WriteError == Exc("OSError", "write")
FilesUntouched == result_png = before.png /\ result_json = before.json
Answered == response /= NoResponse
Success2xx == Answered /\ response.status_code \in 200..299
\* Helpers of the claims below.
InMemory == image /= None \/ mask /= None
NonEmptyOutput ==
  fn = "inpaint" /\ Success2xx /\ response.is_json
    /\ get_output_image(response.json) /= <<>>
DecodedOutput == b64decode(get_output_image(response.json)).data
Destination ==
  IF fn = "inpaint"
  THEN [exists |-> result_png.exists, written |-> Len(result_png.data),
        total |-> Len(output_image_data),
        complete |-> result_png.data = output_image_data]
  ELSE [exists |-> result_json.exists, written |-> result_json.chunks,
        total |-> NumChunks(response_json),
        complete |-> result_json.doc = response_json
                       /\ result_json.chunks = NumChunks(response_json)]
SourceImage(buf, path) == IF buf /= None THEN buf ELSE cv2_imdecode(FileBytes(path))
PayloadBuilt == Called /\ payload.image /= <<>>

\* ------------------------------------------------------------------ claims

\* C1 as stated: a call in which a required role has no source ends with a
\* missing-input error, and no HTTP request is sent during it.
C1_AsStated ==
  (ImageMissing \/ MaskMissing) =>
    /\ posts = 0
    /\ Done => raised \in {MissingImageError, MissingMaskError}

\* C1 amended: such a call ends with an error and sends no HTTP request; the
\* error is the missing-input error of the first role without a source when
\* the credential is set and every role loaded before it could be loaded.
C1_MissingInput ==
  (ImageMissing \/ MaskMissing) =>
    /\ posts = 0
    /\ Done => raised /= NoExc /\ result = NoResult
    /\ (Done /\ CredentialSet /\ ImageMissing) => raised = MissingImageError
    /\ (Done /\ CredentialSet /\ ImageLoadable /\ MaskMissing)
         => raised = MissingMaskError

C1_Witness ==
  /\ Done /\ fn = "inpaint" /\ api_key = "token"
  /\ image = None /\ image_path = "photo.png" /\ MaskMissing
  /\ raised = MissingMaskError /\ posts = 0

\* C2: with RUNPOD_API_KEY unset or empty the call ends with the
\* missing-credential error whatever the arguments; no HTTP request is sent,
\* no input file is read and no output file is written.
C2_MissingCredential ==
  (Called /\ ~CredentialSet) =>
    /\ pc \in {"credential", "done"}
    /\ posts = 0 /\ reads = {} /\ FilesUntouched
    /\ Done => raised = MissingCredentialError /\ result = NoResult

C2_Witness ==
  /\ Done /\ api_key = "" /\ fn = "inpaint"
  /\ image = None /\ image_path = "photo.png" /\ mask /= None
  /\ raised = MissingCredentialError /\ reads = {}

\* C3: every call made with the credential set and every required source
\* supplied and readable has sent exactly one HTTP POST when it ends; no call
\* sends more than one.
C3_ExactlyOnePost ==
  /\ posts <= 1
  /\ (Done /\ CredentialSet /\ SourcesLoadable) => posts = 1

\* C4 as stated: every response status outside 200..299 ends the call with an
\* HTTP error carrying that status, no value returned, no output file written.
C4_AsStated ==
  (Done /\ Answered /\ response.status_code \notin 200..299) =>
    /\ raised.type = "HTTPError" /\ raised.status_code = response.status_code
    /\ result = NoResult /\ FilesUntouched

\* C4 amended: every response status in 400..599 ends the call with an HTTP
\* error carrying that status, no value returned, no output file written
\* (1xx and 3xx statuses are not errors for raise_for_status).
C4_HttpError ==
  (Answered /\ response.status_code \in 400..599) =>
    /\ pc \in {"status", "done"}
    /\ FilesUntouched
    /\ Done => /\ raised.type = "HTTPError"
               /\ raised.status_code = response.status_code
               /\ result = NoResult

C4_Witness ==
  /\ Done /\ fn = "segment" /\ response.status_code = 500
  /\ raised.type = "HTTPError" /\ raised.status_code = 500

\* C5: inpainting, success status, JSON without output_image or with an empty
\* one: the call ends with the empty-result error in both modes, returns no
\* image and writes nothing to the destination.
C5_EmptyResult ==
  (fn = "inpaint" /\ Success2xx /\ response.is_json
     /\ get_output_image(response.json) = <<>>) =>
    /\ result_png = before.png
    /\ pc \in {"status", "parse", "done"}
    /\ Done => raised = EmptyResultError /\ result = NoResult

C5_Witness ==
  /\ Done /\ fn = "inpaint" /\ response.status_code = 200 /\ response.is_json
  /\ response.json.has_output_image /\ response.json.output_image = <<>>
  /\ image = None /\ mask = None
  /\ raised = EmptyResultError /\ result_png = before.png

C7_AsStated == Raised => FilesUntouched

\* C7 amended: a call ends with a value returned and the destination
\* untouched, or with the destination completely written, or with an error;
\* every error other than a failed write to the opened destination leaves the
\* destination as it was; a failed write leaves it created or truncated and
\* holding only part of the output.
C7_NoPartialFailure ==
  /\ (Raised /\ raised /= WriteError) => FilesUntouched
  /\ (Raised /\ raised = WriteError) =>
       Destination.exists /\ Destination.written < Destination.total
  /\ Returned =>
       \/ result.kind \in {"image", "dict"} /\ FilesUntouched
       \/ result.kind = "None" /\ Destination.exists /\ Destination.complete

C7_Witness ==
  /\ Raised /\ fn = "inpaint" /\ ~InMemory
  /\ raised = Exc("binascii.Error", "")
  /\ before.png = OldPng /\ result_png = OldPng

\* C8 as stated: for every role the payload value is base64 of the PNG
\* serialisation of the source, whether the source was a buffer or a path.
C8_AsStated ==
  PayloadBuilt =>
    /\ payload.image = b64encode(cv2_imencode(SourceImage(image, image_path)))
    /\ fn = "inpaint" =>
         payload.mask = b64encode(cv2_imencode(SourceImage(mask, mask_path)))

\* C8 amended: the payload value of a role is base64 of the PNG serialisation
\* when the source is an in-memory buffer, and base64 of the file's bytes as
\* they are on disk (whatever their format) when the source is a path.
C8_Payload ==
  PayloadBuilt =>
    /\ payload.image = IF image /= None THEN b64encode(cv2_imencode(image))
                       ELSE b64encode(FileBytes(image_path))
    /\ fn = "inpaint" =>
         payload.mask = IF mask /= None THEN b64encode(cv2_imencode(mask))
                        ELSE b64encode(FileBytes(mask_path))

C8_Witness ==
  /\ posts = 1 /\ fn = "inpaint"
  /\ image = None /\ image_path = "photo.jpg" /\ mask = 1
  /\ payload.image = b64encode(<<JPEG_MAGIC, 2>>)
  /\ payload.mask = PngText(1)

\* C9: inpainting with image or mask in memory: a normal return carries a
\* decoded image, never None; a non-empty output_image that is malformed
\* base64 or does not decode to an image makes the call raise.
C9_NeverNull ==
  (Done /\ NonEmptyOutput /\ InMemory) =>
    /\ Returned => result.kind = "image" /\ result.image /= None
    /\ (~b64decode(get_output_image(response.json)).ok
          \/ cv2_imdecode(DecodedOutput) = None) => Raised

\* C10: segmentation with the image in memory: the returned masks have the
\* length and order of the response's masks (the i-th is the decoding of the
\* i-th), bounding_boxes is returned as received; an empty or absent masks
\* list on a success response is a normal return of an empty sequence.
C10_MasksPaired ==
  (Done /\ fn = "segment" /\ image /= None /\ Answered) =>
    /\ Returned =>
         /\ result.kind = "dict"
         /\ Len(result.masks) = Len(get_masks(response.json))
         /\ \A i \in 1..Len(result.masks) :
              result.masks[i] = cv2_imdecode(b64decode(response.json.masks[i]).data)
         /\ result.bounding_boxes = get_bounding_boxes(response.json)
    /\ (Success2xx /\ response.is_json /\ get_masks(response.json) = <<>>) =>
         Returned /\ result.masks = <<>>

C10_Witness ==
  /\ Returned /\ fn = "segment" /\ image /= None
  /\ response.json.masks = <<PngText(1), JunkText>>
  /\ response.json.bounding_boxes = <<12, 11>>
  /\ result.masks = <<1, None>>
  /\ result.bounding_boxes = <<12, 11>>

====
